---- MODULE Spec2Model ----
(***************************************************************************)
(* A model of the tempdir crate (src/src/lib.rs): the allocation loop of   *)
(* TempDir::new / TempDir::new_in over a shared filesystem namespace, and  *)
(* the life of the TempDir handle (path, into_inner, close, Drop).         *)
(*                                                                         *)
(* Strings (OsString, PathBuf) are sequences of one-character strings, so  *)
(* that joining, splitting at "/" and the shape of a leaf name are         *)
(* computed and not assumed.                                               *)
(***************************************************************************)
EXTENDS Integers, Sequences, FiniteSets, TLC

\* ------------------------------------------------------------------ bounds

\* The call sites (threads) that allocate and use handles concurrently.
Threads == {1, 2}

\* Calls of TempDir::new / TempDir::new_in the call sites make in all.
MaxCalls == 2

\* Steps the environment (other processes) takes.
MaxEnvSteps == 1

\* Colliding iterations of the allocation loop that are stepped one by one at
\* each end of the loop; the iterations in between are taken as one run.
SlowTries == 1

\* ------------------------------------------------------- program constants

\* const NUM_RETRIES: u32 = 1 << 31. The loop `for _ in 0..NUM_RETRIES` runs its
\* body for the NUM_RETRIES values 0 .. NUM_RETRIES - 1; the model keeps the last
\* of them, (1 << 31) - 1, since NUM_RETRIES itself is beyond TLC's integers.
LastRetry == 2147483647

\* const NUM_RAND_CHARS: usize = 12
NUM_RAND_CHARS == 12

\* ----------------------------------------------------------------- strings

\* The range of rng.gen_ascii_chars(): the 62 ASCII letters and digits.
AsciiAlnum ==
    { "A","B","C","D","E","F","G","H","I","J","K","L","M",
      "N","O","P","Q","R","S","T","U","V","W","X","Y","Z",
      "a","b","c","d","e","f","g","h","i","j","k","l","m",
      "n","o","p","q","r","s","t","u","v","w","x","y","z",
      "0","1","2","3","4","5","6","7","8","9" }

\* The characters the model's random source draws from (a sample of AsciiAlnum).
SampleChars == {"a", "Z"}

\* A byte that no valid UTF-8 string holds; an OsString on Unix may hold it.
NotUnicodeByte == "0xFF"

EmptyStr == << >>
Dot == <<".">>
Slash == <<"/">>

\* Option<T>: None is the empty sequence, Some(x) the one-element sequence, so
\* that Option::iter() is iteration over it.
None == << >>
Some(x) == <<x>>
unwrap(o) == o[1]

\* ------------------------------------------------------------------- paths

\* Path::is_absolute / Path::is_relative on a Unix path.
is_absolute(p) == Len(p) > 0 /\ p[1] = "/"
is_relative(p) == ~is_absolute(p)

\* Path::join (PathBuf::push): an absolute argument replaces the path; a
\* relative one is appended after a separator.
join(base, p) ==
    IF is_absolute(p) THEN p
    ELSE IF Len(base) = 0 \/ base[Len(base)] = "/" THEN base \o p
    ELSE base \o Slash \o p

\* The position of the last "/" of p (0 when there is none).
LastSlash(p) ==
    LET S == {i \in 1..Len(p) : p[i] = "/"}
    IN IF S = {} THEN 0 ELSE CHOOSE i \in S : \A j \in S : j <= i

\* Path::parent: the path without its final component.
parent(p) ==
    LET k == LastSlash(p)
    IN IF k = 0 THEN EmptyStr
       ELSE IF k = 1 THEN Slash
       ELSE SubSeq(p, 1, k - 1)

\* Path::file_name: the final component.
file_name(p) == SubSeq(p, LastSlash(p) + 1, Len(p))

\* q lies strictly below directory p.
Below(p, q) ==
    /\ Len(q) > Len(p) + 1
    /\ SubSeq(q, 1, Len(p)) = p
    /\ q[Len(p) + 1] = "/"

\* s occurs in t as a contiguous substring (str::contains).
contains(t, s) ==
    \E i \in 0..(Len(t) - Len(s)) : SubSeq(t, i + 1, i + Len(s)) = s

\* The directories of the model's filesystem.
RootDir == Slash
TmpDefault == <<"/","t","m","p">>
AltDir == <<"/","a","l","t">>
\* A directory whose name is not valid Unicode.
NotUnicodeDir == <<"/", NotUnicodeByte>>
ReadOnlyDir == <<"/","r","o">>
MissingDir == <<"/","n","o">>
\* The default of an Android target, and the directories above it.
AndroidDefault == <<"/","d","a","t","a","/","l","o","c","a","l","/","t","m","p">>
AndroidParents == {<<"/","d","a","t","a">>, <<"/","d","a","t","a","/","l","o","c","a","l">>}
\* A relative tmpdir and the current directory it is relative to.
RelDir == <<"t","m","p">>
CwdDir == RootDir
FileLeaf == <<"f">>

\* ------------------------------------------------------------------ errors

\* io::Error as the caller sees it: its kind and its description.
NoError == [kind |-> "", desc |-> ""]

\* An error the operating system reports for a filesystem call.
OsError(kind) == [kind |-> kind, desc |-> "os error"]

\* io::Error::new(io::ErrorKind::PathAlreadyExists, "Exhausted", None)
Exhausted == [kind |-> "PathAlreadyExists", desc |-> "Exhausted"]

\* to_new_error_kind: old_io::IoErrorKind to io::ErrorKind.
to_new_error_kind(kind) ==
    CASE kind = "OtherIoError" -> "Other"
      [] kind = "EndOfFile" -> "Other"
      [] kind = "FileNotFound" -> "FileNotFound"
      [] kind = "PermissionDenied" -> "PermissionDenied"
      [] kind = "ConnectionFailed" -> "Other"
      [] kind = "Closed" -> "Other"
      [] kind = "ConnectionRefused" -> "ConnectionRefused"
      [] kind = "ConnectionReset" -> "ConnectionReset"
      [] kind = "ConnectionAborted" -> "ConnectionAborted"
      [] kind = "NotConnected" -> "NotConnected"
      [] kind = "BrokenPipe" -> "BrokenPipe"
      [] kind = "PathAlreadyExists" -> "PathAlreadyExists"
      [] kind = "PathDoesntExist" -> "PathDoesntExist"
      [] kind = "MismatchedFileTypeForOperation" -> "MismatchedFileTypeForOperation"
      [] kind = "ResourceUnavailable" -> "ResourceUnavailable"
      [] kind = "IoUnavailable" -> "Other"
      [] kind = "InvalidInput" -> "InvalidInput"
      [] kind = "TimedOut" -> "TimedOut"
      [] kind = "ShortWrite" -> "Other"
      [] kind = "NoProgress" -> "Other"

\* to_new_error: the kind is converted, the description is kept.
to_new_error(error) == [kind |-> to_new_error_kind(error.kind), desc |-> error.desc]

\* The old_io errors env::current_dir() fails with in the model.
CwdErrorKinds == {"FileNotFound", "EndOfFile"}

\* --------------------------------------------------- the filesystem provider

\* A create that succeeds on a directory that exists (fs::create_dir_all in the
\* place of fs::create_dir): not create-if-absent.
create_dir_all(dirs, ronly, p) ==
    IF p \in dirs
    THEN [ok |-> TRUE, err |-> NoError, fs |-> dirs]
    ELSE IF parent(p) \notin dirs
    THEN [ok |-> FALSE, err |-> OsError("FileNotFound"), fs |-> dirs]
    ELSE IF parent(p) \in ronly
    THEN [ok |-> FALSE, err |-> OsError("PermissionDenied"), fs |-> dirs]
    ELSE [ok |-> TRUE, err |-> NoError, fs |-> dirs \cup {p}]

\* A create that makes the missing parent as well (mkdir -p).
create_dir_parents(dirs, ronly, p) ==
    IF p \in dirs
    THEN [ok |-> FALSE, err |-> OsError("PathAlreadyExists"), fs |-> dirs]
    ELSE IF parent(p) \notin dirs
    THEN [ok |-> TRUE, err |-> NoError, fs |-> dirs \cup {parent(p), p}]
    ELSE IF parent(p) \in ronly
    THEN [ok |-> FALSE, err |-> OsError("PermissionDenied"), fs |-> dirs]
    ELSE [ok |-> TRUE, err |-> NoError, fs |-> dirs \cup {p}]

\* fs::create_dir(p) on the directories `dirs`, of which `ronly` are not
\* writable: one indivisible create-if-absent; no parent is created.
create_dir(dirs, ronly, p) ==
    IF p \in dirs
    THEN [ok |-> FALSE, err |-> OsError("PathAlreadyExists"), fs |-> dirs]
    ELSE IF parent(p) \notin dirs
    THEN [ok |-> FALSE, err |-> OsError("FileNotFound"), fs |-> dirs]
    ELSE IF parent(p) \in ronly
    THEN [ok |-> FALSE, err |-> OsError("PermissionDenied"), fs |-> dirs]
    ELSE [ok |-> TRUE, err |-> NoError, fs |-> dirs \cup {p}]

\* fs::remove_dir_all(p): the entries of p are removed (each needs p to be
\* writable), then p itself (which needs its parent to be writable). A failure
\* part of the way keeps what was removed before it.
remove_dir_all(dirs, ronly, p) ==
    LET kids == {q \in dirs : Below(p, q)}
    IN IF p \notin dirs
       THEN [ok |-> FALSE, err |-> OsError("FileNotFound"), fs |-> dirs]
       ELSE IF kids # {} /\ p \in ronly
       THEN [ok |-> FALSE, err |-> OsError("PermissionDenied"), fs |-> dirs]
       ELSE IF parent(p) \in ronly
       THEN [ok |-> FALSE, err |-> OsError("PermissionDenied"), fs |-> dirs \ kids]
       ELSE [ok |-> TRUE, err |-> NoError, fs |-> dirs \ (kids \cup {p})]

\* ------------------------------------------------------------ the resolver

\* The Unix targets: cfg!(target_os = "android") or not.
Targets == {"linux", "android"}

\* OsString::into_string succeeds: the bytes are valid Unicode.
is_unicode(x) == \A i \in 1..Len(x) : x[i] # NotUnicodeByte

\* env::var(v): Ok(String) for a variable that is present and valid Unicode;
\* Err(NotPresent) or Err(NotUnicode) otherwise.
env_var(v) ==
    IF v = None THEN [ok |-> FALSE, x |-> EmptyStr, err |-> "NotPresent"]
    ELSE IF ~is_unicode(unwrap(v)) THEN [ok |-> FALSE, x |-> EmptyStr, err |-> "NotUnicode"]
    ELSE [ok |-> TRUE, x |-> unwrap(v), err |-> ""]

\* var_nonempty: Some(path) for Ok(x) with x not empty; None for Ok("") and
\* for every Err.
var_nonempty(v) ==
    LET r == env_var(v)
    IN IF r.ok
       THEN IF r.x = EmptyStr THEN None ELSE Some(r.x)
       ELSE None

\* Option::unwrap_or.
unwrap_or(o, d) == IF o = None THEN d ELSE unwrap(o)

\* lookup() under cfg(unix): TMPDIR, else the default of the target.
lookup(os, tmpdirVar) ==
    LET default == IF os = "android" THEN AndroidDefault ELSE TmpDefault
    IN unwrap_or(var_nonempty(tmpdirVar), default)

\* temp_dir() on a Unix target.
temp_dir(os, tmpdirVar) == lookup(os, tmpdirVar)

\* ------------------------------------------------------- the name generator

\* rng.gen_ascii_chars().take(NUM_RAND_CHARS).collect(), for the sampled
\* characters: the strings of NUM_RAND_CHARS times one of them.
RandSuffixes == { [i \in 1..NUM_RAND_CHARS |-> c] : c \in SampleChars }

\* The leaf with the separator whatever the prefix is.
gen_leaf_always_dot(prefix, suffix) == prefix \o Dot \o suffix

\* The leaf of one iteration: prefix "." suffix, or the suffix alone when the
\* prefix is empty.
gen_leaf(prefix, suffix) ==
    IF prefix # EmptyStr THEN prefix \o Dot \o suffix ELSE suffix

\* The match with every error retried.
match_create_retry_all(r) ==
    IF r.ok THEN "return_ok" ELSE "retry"

\* The match with the collision arm returning the handle: a directory that
\* exists is taken for the new one.
match_create_exists_ok(r) ==
    IF r.ok THEN "return_ok"
    ELSE IF r.err.kind = "PathAlreadyExists" THEN "return_ok"
    ELSE "return_err"

\* What the loop does with the result of create_dir.
match_create(r) ==
    IF r.ok THEN "return_ok"
    ELSE IF r.err.kind = "PathAlreadyExists" THEN "retry"
    ELSE "return_err"

\* The error of the last attempt returned when the loop ends.
exhausted_last_error(lastErr) == lastErr

\* The error returned when the loop ends without a directory.
exhausted_error(lastErr) == Exhausted

\* --------------------------------------------------------------- the handle

\* struct TempDir { path: Option<PathBuf> }; live is whether the value exists.
NoHandle == [live |-> FALSE, path |-> None]
TempDir(p) == [live |-> TRUE, path |-> Some(p)]

\* A drop that unwraps the result of the removal: a failure is raised.
drop_unwrap(self, dirs, ronly) ==
    IF self.path = None
    THEN [fs |-> dirs, calls |-> 0, rm |-> [ok |-> TRUE, err |-> NoError], raised |-> NoError]
    ELSE LET r == remove_dir_all(dirs, ronly, unwrap(self.path))
         IN [fs |-> r.fs, calls |-> 1, rm |-> [ok |-> r.ok, err |-> r.err], raised |-> r.err]

\* A drop that removes nothing.
drop_nothing(self, dirs, ronly) ==
    [fs |-> dirs, calls |-> 0, rm |-> [ok |-> TRUE, err |-> NoError], raised |-> NoError]

\* Drop for TempDir: remove_dir_all for each path held, the result discarded.
drop(self, dirs, ronly) ==
    IF self.path = None
    THEN [fs |-> dirs, calls |-> 0, rm |-> [ok |-> TRUE, err |-> NoError], raised |-> NoError]
    ELSE LET r == remove_dir_all(dirs, ronly, unwrap(self.path))
         IN [fs |-> r.fs, calls |-> 1, rm |-> [ok |-> r.ok, err |-> r.err], raised |-> NoError]

\* The path read and left in place (as_ref or clone in the place of take).
take_keeps(self) == self

\* self.path.take(): the handle after it.
take(self) == [self EXCEPT !.path = None]

\* A path() that answers the empty path when there is none (unwrap_or_default
\* in the place of unwrap).
path_or_default(self) ==
    [panicked |-> FALSE,
     ret |-> IF self.path = None THEN EmptyStr ELSE unwrap(self.path)]

\* path(&self): self.path.as_ref().unwrap(); unwrap panics on None.
path(self) ==
    [panicked |-> self.path = None,
     ret |-> IF self.path = None THEN EmptyStr ELSE unwrap(self.path)]

\* into_inner(mut self): the path is taken out and returned; self, now empty,
\* is dropped when the function returns.
into_inner(self, dirs, ronly) ==
    LET d == drop(take(self), dirs, ronly)
    IN [panicked |-> self.path = None,
        ret |-> IF self.path = None THEN EmptyStr ELSE unwrap(self.path),
        fs |-> d.fs, calls |-> d.calls, rm |-> d.rm]

\* fs::remove_dir(p): p is removed only when it is empty.
remove_dir(dirs, ronly, p) ==
    IF p \notin dirs
    THEN [ok |-> FALSE, err |-> OsError("FileNotFound"), fs |-> dirs]
    ELSE IF {q \in dirs : Below(p, q)} # {}
    THEN [ok |-> FALSE, err |-> OsError("Other"), fs |-> dirs]
    ELSE IF parent(p) \in ronly
    THEN [ok |-> FALSE, err |-> OsError("PermissionDenied"), fs |-> dirs]
    ELSE [ok |-> TRUE, err |-> NoError, fs |-> dirs \ {p}]

\* What close gives when into_inner panicked: the argument of remove_dir_all
\* was never computed, so nothing is removed.
close_panicked(i) ==
    [panicked |-> TRUE, ret |-> [ok |-> FALSE, err |-> NoError],
     fs |-> i.fs, calls |-> i.calls, rm |-> i.rm]

\* A close that discards the result of the removal, as drop does.
close_swallows(self, dirs, ronly) ==
    LET i == into_inner(self, dirs, ronly)
        r == remove_dir_all(i.fs, ronly, i.ret)
    IN IF i.panicked THEN close_panicked(i)
       ELSE [panicked |-> FALSE,
             ret |-> [ok |-> TRUE, err |-> NoError],
             fs |-> r.fs, calls |-> i.calls + 1, rm |-> [ok |-> r.ok, err |-> r.err]]

\* A close that removes with fs::remove_dir: not recursive.
close_not_recursive(self, dirs, ronly) ==
    LET i == into_inner(self, dirs, ronly)
        r == remove_dir(i.fs, ronly, i.ret)
    IN IF i.panicked THEN close_panicked(i)
       ELSE [panicked |-> FALSE,
             ret |-> [ok |-> r.ok, err |-> r.err],
             fs |-> r.fs, calls |-> i.calls + 1, rm |-> [ok |-> r.ok, err |-> r.err]]

\* A close that reads the path in place and leaves it to the handle: the drop
\* of self at the end of close removes a second time.
close_by_ref(self, dirs, ronly) ==
    IF self.path = None THEN close_panicked(into_inner(self, dirs, ronly))
    ELSE LET r == remove_dir_all(dirs, ronly, unwrap(self.path))
             d == drop(self, r.fs, ronly)
         IN [panicked |-> FALSE,
             ret |-> [ok |-> r.ok, err |-> r.err],
             fs |-> d.fs, calls |-> 1 + d.calls, rm |-> d.rm]

\* close(self): fs::remove_dir_all(&self.into_inner()).
close(self, dirs, ronly) ==
    LET i == into_inner(self, dirs, ronly)
        r == remove_dir_all(i.fs, ronly, i.ret)
    IN IF i.panicked THEN close_panicked(i)
       ELSE [panicked |-> FALSE,
             ret |-> [ok |-> r.ok, err |-> r.err],
             fs |-> r.fs, calls |-> i.calls + 1, rm |-> [ok |-> r.ok, err |-> r.err]]

\* -------------------------------------------------------------------- state

VARIABLES
    fs,         \* the paths that exist (directories, and files inside temp dirs)
    ro,         \* the directories of fs that are not writable
    envTMPDIR,  \* the environment variable TMPDIR: None (unset) or Some(value)
    cwd,        \* what env::current_dir() answers
    envSteps,   \* steps the environment has taken
    pc,         \* per call site: "idle", "alloc" (inside new_in's loop), "holding",
                \* "unwinding" (after a panic), "joining" (waiting in join())
    tmpdir,     \* per call site, inside new_in: its tmpdir once absolute
    prefix,     \* per call site, inside new_in: its prefix
    tries,      \* per call site, inside new_in: the loop's counter
    handle,     \* per call site: the TempDir value it holds
    result,     \* per call site: what the last operation returned
    calls,      \* allocations called so far
    obs,        \* per call site: what the last operation did (history)
    target_os,  \* the Unix target the crate is built for: "linux" or "android"
    scope       \* per call site: the thread it gave its handle to and waits for

vars == <<fs, ro, envTMPDIR, cwd, envSteps, pc, tmpdir, prefix, tries, handle,
          result, calls, obs, target_os, scope>>

\* The arguments the call sites pass.
Roots == {TmpDefault, ReadOnlyDir, MissingDir, RelDir}
Prefixes == {EmptyStr, <<"p">>, <<"/","p">>}

\* The values the environment gives TMPDIR.
TmpdirValues == {None, Some(EmptyStr), Some(AltDir), Some(NotUnicodeDir)}

CwdOk == [ok |-> TRUE, path |-> CwdDir, err |-> NoError]
CwdAt(dir) == [ok |-> TRUE, path |-> dir, err |-> NoError]
CwdErr(kind) == [ok |-> FALSE, path |-> EmptyStr, err |-> [kind |-> kind, desc |-> "os error"]]

\* What an operation returned: nothing yet, Ok(path), Ok(()), Err(e), or a panic.
NoResult == [tag |-> "None", path |-> EmptyStr, err |-> NoError]
OkPath(p) == [tag |-> "Ok", path |-> p, err |-> NoError]
OkUnit == [tag |-> "Unit", path |-> EmptyStr, err |-> NoError]
Err(e) == [tag |-> "Err", path |-> EmptyStr, err |-> e]
Panic == [tag |-> "Panic", path |-> EmptyStr, err |-> NoError]
PanicWith(e) == [tag |-> "Panic", path |-> EmptyStr, err |-> e]
\* What an observation of the filesystem answered: true or false.
OkBool(b) == [tag |-> IF b THEN "True" ELSE "False", path |-> EmptyStr, err |-> NoError]

\* No filesystem call made yet.
NoCall == [ok |-> TRUE, err |-> NoError]

\* The history of a call site at the start of an allocation: the step it took
\* last ("new", "new_in", "attempt" for an iteration of the loop, "path",
\* "into_inner", "close", "drop", "scoped", "join"), what the latest create_dir
\* answered, the calls of remove_dir_all its last operation made and what the
\* latest answered.
NoObs == [op |-> "none", create |-> NoCall, rmCalls |-> 0, rm |-> NoCall]

\* No thread waited for.
NoScope == [child |-> 0, path |-> EmptyStr]

\* The process before its first call: no call site has called anything.
Fresh ==
    /\ envTMPDIR = None
    /\ cwd = CwdOk
    /\ envSteps = 0
    /\ pc = [t \in Threads |-> "idle"]
    /\ tmpdir = [t \in Threads |-> EmptyStr]
    /\ prefix = [t \in Threads |-> EmptyStr]
    /\ tries = [t \in Threads |-> 0]
    /\ handle = [t \in Threads |-> NoHandle]
    /\ result = [t \in Threads |-> NoResult]
    /\ calls = 0
    /\ obs = [t \in Threads |-> NoObs]
    /\ scope = [t \in Threads |-> NoScope]

\* A build for Linux, on a filesystem with /tmp, /alt and the read-only /ro.
Init ==
    /\ target_os = "linux"
    /\ fs = {RootDir, TmpDefault, AltDir, ReadOnlyDir}
    /\ ro = {ReadOnlyDir}
    /\ Fresh

\* A build for either Unix target, on a filesystem with the target's default.
InitTargets ==
    /\ target_os \in Targets
    /\ fs = {RootDir, AltDir, ReadOnlyDir}
               \cup (IF target_os = "android"
                     THEN AndroidParents \cup {AndroidDefault}
                     ELSE {TmpDefault})
    /\ ro = {ReadOnlyDir}
    /\ Fresh

\* ------------------------------------------------------------- allocation

\* new_in without its first lines: tmpdir is used as it is given.
resolve_tmpdir_as_given(root, cur) == [ok |-> TRUE, root |-> root, err |-> NoError]

\* new_in's first lines: a relative tmpdir is joined to the current directory,
\* and new_in is called again with the result; a failure of current_dir is
\* converted and returned.
resolve_tmpdir(root, cur) ==
    IF is_relative(root)
    THEN IF cur.ok
         THEN [ok |-> TRUE, root |-> join(cur.path, root), err |-> NoError]
         ELSE [ok |-> FALSE, root |-> EmptyStr, err |-> to_new_error(cur.err)]
    ELSE [ok |-> TRUE, root |-> root, err |-> NoError]

\* new_in returns: its locals are gone.
Returned(t) ==
    /\ tmpdir' = [tmpdir EXCEPT ![t] = EmptyStr]
    /\ prefix' = [prefix EXCEPT ![t] = EmptyStr]
    /\ tries' = [tries EXCEPT ![t] = 0]

\* Call site t is the closure of a thread that another call site waits for.
InClosure(t) == \E s \in Threads : scope[s].child = t

\* The entry of new_in(root, pfx) at call site t, up to the loop. (A closure
\* that was given a handle uses that handle and allocates nothing.)
Enter(t, root, pfx, op) ==
    LET r == resolve_tmpdir(root, cwd)
    IN /\ pc[t] = "idle"
       /\ ~InClosure(t)
       /\ calls < MaxCalls
       /\ calls' = calls + 1
       /\ obs' = [obs EXCEPT ![t] = [NoObs EXCEPT !.op = op]]
       /\ IF r.ok
          THEN /\ pc' = [pc EXCEPT ![t] = "alloc"]
               /\ tmpdir' = [tmpdir EXCEPT ![t] = r.root]
               /\ prefix' = [prefix EXCEPT ![t] = pfx]
               /\ tries' = [tries EXCEPT ![t] = 0]
               /\ result' = [result EXCEPT ![t] = NoResult]
          ELSE /\ Returned(t)
               /\ pc' = pc
               /\ result' = [result EXCEPT ![t] = Err(r.err)]
       /\ UNCHANGED <<fs, ro, envTMPDIR, cwd, envSteps, target_os, scope, handle>>

\* A TempDir::new under a root kept from the start of the process, when
\* TMPDIR was unset.
New_with_root_of_start(t) ==
    \E pfx \in Prefixes : Enter(t, temp_dir(target_os, None), pfx, "new")

\* TempDir::new(prefix): new_in under temp_dir(), read at the call.
New(t) == \E pfx \in Prefixes : Enter(t, temp_dir(target_os, envTMPDIR), pfx, "new")

\* TempDir::new_in(tmpdir, prefix).
NewIn(t) == \E root \in Roots, pfx \in Prefixes : Enter(t, root, pfx, "new_in")

\* One iteration of the loop with the suffix drawn: the candidate path and what
\* create_dir answers for it.
Iteration(t, suffix) ==
    LET cand == join(tmpdir[t], gen_leaf(prefix[t], suffix))
        r == create_dir(fs, ro, cand)
    IN [path |-> cand, r |-> r, m |-> match_create(r)]

\* The history after an iteration in which create_dir answered r.
Tried(o, r) == [o EXCEPT !.op = "attempt", !.create = [ok |-> r.ok, err |-> r.err]]

\* A loop without an end (`loop` in the place of `for _ in 0..NUM_RETRIES`):
\* when the range is used up the count starts again.
Collided_restarts(t, it, n) ==
    /\ obs' = [obs EXCEPT ![t] = Tried(@, it.r)]
    /\ fs' = it.r.fs
    /\ tries' = [tries EXCEPT ![t] = IF tries[t] + (n - 1) = LastRetry THEN 0 ELSE @ + n]
    /\ UNCHANGED <<pc, result, tmpdir, prefix>>
    /\ UNCHANGED <<ro, envTMPDIR, cwd, envSteps, target_os, scope, handle, calls>>

\* The loop after `n` more colliding iterations, the last of which is `it`:
\* it goes on, or the range is used up and it ends with the error of exhaustion.
Collided(t, it, n) ==
    /\ obs' = [obs EXCEPT ![t] = Tried(@, it.r)]
    /\ fs' = it.r.fs
    /\ IF tries[t] + (n - 1) = LastRetry
       THEN /\ Returned(t)
            /\ pc' = [pc EXCEPT ![t] = "idle"]
            /\ result' = [result EXCEPT ![t] = Err(exhausted_error(it.r.err))]
       ELSE /\ tries' = [tries EXCEPT ![t] = @ + n]
            /\ UNCHANGED <<pc, result, tmpdir, prefix>>
    /\ UNCHANGED <<ro, envTMPDIR, cwd, envSteps, target_os, scope, handle, calls>>

\* One iteration of `for _ in 0..NUM_RETRIES`: a name is drawn and create_dir
\* is called once.
Attempt(t) ==
    /\ pc[t] = "alloc"
    /\ tries[t] <= LastRetry
    /\ \E suffix \in RandSuffixes :
        LET it == Iteration(t, suffix)
        IN CASE it.m = "return_ok" ->
                  /\ fs' = it.r.fs
                  /\ handle' = [handle EXCEPT ![t] = TempDir(it.path)]
                  /\ pc' = [pc EXCEPT ![t] = "holding"]
                  /\ result' = [result EXCEPT ![t] = OkPath(it.path)]
                  /\ obs' = [obs EXCEPT ![t] = Tried(@, it.r)]
                  /\ Returned(t)
                  /\ UNCHANGED <<ro, envTMPDIR, cwd, envSteps, target_os, scope, calls>>
             [] it.m = "return_err" ->
                  /\ fs' = it.r.fs
                  /\ pc' = [pc EXCEPT ![t] = "idle"]
                  /\ result' = [result EXCEPT ![t] = Err(it.r.err)]
                  /\ obs' = [obs EXCEPT ![t] = Tried(@, it.r)]
                  /\ Returned(t)
                  /\ UNCHANGED <<ro, envTMPDIR, cwd, envSteps, target_os, scope, handle, calls>>
             [] it.m = "retry" ->
                  /\ tries[t] < SlowTries \/ tries[t] > LastRetry - SlowTries
                  /\ Collided(t, it, 1)

\* The iterations between the first SlowTries and the last SlowTries, when each
\* of them draws a name that exists: NUM_RETRIES - 2 * SlowTries colliding
\* iterations in a row, none of which changes anything but the counter.
CollidingRun(t) ==
    /\ pc[t] = "alloc"
    /\ tries[t] = SlowTries
    /\ \E suffix \in RandSuffixes :
        LET it == Iteration(t, suffix)
        IN /\ it.m = "retry"
           /\ Collided(t, it, (LastRetry - 2 * SlowTries) + 1)

\* ------------------------------------------------- operations on a handle

\* The call site's handle is gone and the filesystem is as the operation left it.
Consumed(t, newFs) ==
    /\ fs' = newFs
    /\ ro' = ro \cap newFs
    /\ handle' = [handle EXCEPT ![t] = NoHandle]
    /\ pc' = [pc EXCEPT ![t] = "idle"]
    /\ UNCHANGED <<envTMPDIR, cwd, envSteps, target_os, scope, tmpdir, prefix, tries, calls>>

\* temp_dir.path(). A panic unwinds the call site: all that is left to happen
\* to the handle is its drop.
PathOp(t) ==
    /\ pc[t] = "holding"
    /\ LET r == path(handle[t])
       IN /\ result' = [result EXCEPT ![t] = IF r.panicked THEN Panic ELSE OkPath(r.ret)]
          /\ pc' = [pc EXCEPT ![t] = IF r.panicked THEN "unwinding" ELSE "holding"]
    /\ obs' = [obs EXCEPT ![t] = [@ EXCEPT !.op = "path"]]
    /\ UNCHANGED <<fs, ro, envTMPDIR, cwd, envSteps, target_os, scope, tmpdir, prefix,
                   tries, handle, calls>>

\* temp_dir.into_inner().
IntoInner(t) ==
    /\ pc[t] = "holding"
    /\ LET i == into_inner(handle[t], fs, ro)
       IN /\ result' = [result EXCEPT ![t] = IF i.panicked THEN Panic ELSE OkPath(i.ret)]
          /\ obs' = [obs EXCEPT ![t] = [@ EXCEPT !.op = "into_inner",
                                                 !.rmCalls = i.calls, !.rm = i.rm]]
          /\ Consumed(t, i.fs)

\* temp_dir.close().
Close(t) ==
    /\ pc[t] = "holding"
    /\ LET c == close(handle[t], fs, ro)
       IN /\ result' = [result EXCEPT ![t] =
                           IF c.panicked THEN Panic
                           ELSE IF c.ret.ok THEN OkUnit ELSE Err(c.ret.err)]
          /\ obs' = [obs EXCEPT ![t] = [@ EXCEPT !.op = "close",
                                                 !.rmCalls = c.calls, !.rm = c.rm]]
          /\ Consumed(t, c.fs)

\* The handle goes out of scope (or drop(temp_dir), or the call site unwinds):
\* Drop::drop runs.
DropOp(t) ==
    /\ pc[t] \in {"holding", "unwinding"}
    /\ LET d == drop(handle[t], fs, ro)
       IN /\ result' = [result EXCEPT ![t] = IF d.raised = NoError THEN OkUnit ELSE PanicWith(d.raised)]
          /\ obs' = [obs EXCEPT ![t] = [@ EXCEPT !.op = "drop",
                                                 !.rmCalls = d.calls, !.rm = d.rm]]
          /\ Consumed(t, d.fs)

\* The holder puts a file into its directory, through path().
UseDir(t) ==
    /\ pc[t] = "holding"
    /\ ~path(handle[t]).panicked
    /\ LET dir == path(handle[t]).ret
           file == join(dir, FileLeaf)
       IN /\ dir \in fs
          /\ dir \notin ro
          /\ file \notin fs
          /\ fs' = fs \cup {file}
    /\ UNCHANGED <<ro, envTMPDIR, cwd, envSteps, target_os, scope, pc, tmpdir, prefix, tries, handle,
                   result, calls, obs>>

\* ------------------------------------------------ a handle sent to a thread

\* PathExt::exists.
exists(dirs, p) == p \in dirs

\* let path = temp_dir.path().to_path_buf(); thread::scoped(move || ...): call
\* site t keeps a copy of the path, its handle moves into the closure that
\* thread u runs, and t waits in join().
Send(t, u) ==
    /\ t # u
    /\ pc[t] = "holding" /\ pc[u] = "idle"
    /\ ~path(handle[t]).panicked
    /\ scope' = [scope EXCEPT ![t] = [child |-> u, path |-> path(handle[t]).ret]]
    /\ handle' = [handle EXCEPT ![t] = NoHandle, ![u] = handle[t]]
    /\ pc' = [pc EXCEPT ![t] = "joining", ![u] = "holding"]
    /\ obs' = [obs EXCEPT ![t] = [@ EXCEPT !.op = "scoped"], ![u] = NoObs]
    /\ result' = [result EXCEPT ![u] = NoResult]
    /\ UNCHANGED <<fs, ro, envTMPDIR, cwd, envSteps, target_os, tmpdir, prefix, tries, calls>>

\* join() returns once the closure has ended, the handle it was given with it;
\* then assert!(!path.exists()) looks at the filesystem.
Join(t) ==
    /\ pc[t] = "joining"
    /\ pc[scope[t].child] = "idle"
    /\ pc' = [pc EXCEPT ![t] = "idle"]
    /\ result' = [result EXCEPT ![t] = OkBool(exists(fs, scope[t].path))]
    /\ obs' = [obs EXCEPT ![t] = [@ EXCEPT !.op = "join"]]
    /\ scope' = [scope EXCEPT ![t] = NoScope]
    /\ UNCHANGED <<fs, ro, envTMPDIR, cwd, envSteps, target_os, tmpdir, prefix, tries,
                   handle, calls>>

\* ---------------------------------------------------------- the environment

\* The directories handles own.
Owned == {unwrap(handle[t].path) : t \in {u \in Threads : handle[u].path # None}}

EnvStep ==
    /\ envSteps < MaxEnvSteps
    /\ envSteps' = envSteps + 1
    /\ UNCHANGED <<pc, tmpdir, prefix, tries, handle, result, calls, obs,
                   target_os, scope>>

\* Another process removes a temporary directory and what is in it.
EnvRemove ==
    /\ EnvStep
    /\ \E p \in Owned \cap fs :
        /\ fs' = fs \ ({p} \cup {q \in fs : Below(p, q)})
        /\ ro' = ro \cap fs'
    /\ UNCHANGED <<envTMPDIR, cwd>>

\* Another process takes the write permission of a directory away.
EnvChmod ==
    /\ EnvStep
    /\ \E d \in (({TmpDefault} \cup Owned) \cap fs) \ ro : ro' = ro \cup {d}
    /\ UNCHANGED <<fs, envTMPDIR, cwd>>

\* TMPDIR is set or unset.
EnvSetTmpdir ==
    /\ EnvStep
    /\ \E v \in TmpdirValues \ {envTMPDIR} : envTMPDIR' = v
    /\ UNCHANGED <<fs, ro, cwd>>

\* The current directory becomes unavailable, or available again, or another
\* directory (chdir).
EnvSetCwd ==
    /\ EnvStep
    /\ \E c \in ({CwdOk, CwdAt(AltDir)} \cup {CwdErr(k) : k \in CwdErrorKinds}) \ {cwd} :
          cwd' = c
    /\ UNCHANGED <<fs, ro, envTMPDIR>>

\* ------------------------------------------------------------ specifications

\* The steps of one call site.
Site(t) ==
    \/ New(t)
    \/ NewIn(t)
    \/ Attempt(t)
    \/ CollidingRun(t)
    \/ PathOp(t)
    \/ IntoInner(t)
    \/ Close(t)
    \/ DropOp(t)
    \/ UseDir(t)

ThreadNext == \E t \in Threads : Site(t)

EnvNext == EnvRemove \/ EnvChmod \/ EnvSetTmpdir \/ EnvSetCwd

Next == ThreadNext \/ EnvNext

\* The call sites in an environment that interferes in every way.
Spec == Init /\ [][Next]_vars

\* The call sites alone: nothing else touches the filesystem or the environment.
SpecIsolated == Init /\ [][ThreadNext]_vars

\* One call site on a filesystem that other processes change as well.
SharedNext == Site(1) \/ EnvRemove \/ EnvChmod

SpecShared == Init /\ [][SharedNext]_vars

\* The directories a handle owns in what follows: children of /tmp with a name
\* of the generator.
HandleDirs ==
    {join(TmpDefault, gen_leaf(pfx, s)) : pfx \in {EmptyStr, <<"p">>}, s \in RandSuffixes}

\* The values of type TempDir for directory p: the one new_in returns, and the
\* one whose path was taken (what `self` is inside into_inner after take()).
HandleValues(p) == {TempDir(p), take(TempDir(p))}

\* Call site 1 holds a value of type TempDir for a directory of /tmp, and the
\* directory is as its holder and other processes may have left it: there or
\* gone, empty or not, writable or not.
InitHandle ==
    /\ target_os = "linux"
    /\ \E p \in HandleDirs :
          /\ \E there \in BOOLEAN, kids \in SUBSET {join(p, FileLeaf)} :
                fs = {RootDir, TmpDefault, AltDir, ReadOnlyDir}
                        \cup (IF there THEN {p} \cup kids ELSE {})
          /\ \E r \in SUBSET {TmpDefault, p} : ro = ({ReadOnlyDir} \cup r) \cap fs
          /\ \E h \in HandleValues(p) :
                handle = [t \in Threads |-> IF t = 1 THEN h ELSE NoHandle]
    /\ envTMPDIR = None
    /\ cwd = CwdOk
    /\ envSteps = 0
    /\ pc = [t \in Threads |-> IF t = 1 THEN "holding" ELSE "idle"]
    /\ tmpdir = [t \in Threads |-> EmptyStr]
    /\ prefix = [t \in Threads |-> EmptyStr]
    /\ tries = [t \in Threads |-> 0]
    /\ result = [t \in Threads |-> NoResult]
    /\ calls = 1
    /\ obs = [t \in Threads |-> NoObs]
    /\ scope = [t \in Threads |-> NoScope]

HandleNext == PathOp(1) \/ IntoInner(1) \/ Close(1) \/ DropOp(1) \/ UseDir(1)

\* The operations of TempDir applied to each of its values.
SpecHandle == InitHandle /\ [][HandleNext]_vars

SendNext ==
    \/ ThreadNext
    \/ \E t, u \in Threads : Send(t, u)
    \/ \E t \in Threads : Join(t)

\* The call sites alone, and handles that move from one thread to another.
SpecSend == Init /\ [][SendNext]_vars

EnvSiteNext ==
    \/ New(1)
    \/ Attempt(1)
    \/ CollidingRun(1)
    \/ PathOp(1)
    \/ IntoInner(1)
    \/ Close(1)
    \/ DropOp(1)
    \/ UseDir(1)
    \/ EnvSetTmpdir

\* One call site that allocates with TempDir::new, on either Unix target,
\* while TMPDIR is set, emptied and unset.
SpecEnv == InitTargets /\ [][EnvSiteNext]_vars

\* The calls of one call site, each handle it gets detached or dropped.
LoopNext ==
    \/ New(1)
    \/ NewIn(1)
    \/ Attempt(1)
    \/ CollidingRun(1)
    \/ IntoInner(1)
    \/ DropOp(1)

\* One call site alone, its thread running: once inside the loop of new_in it
\* goes on to the next iteration.
SpecLoopFair ==
    /\ Init
    /\ [][LoopNext]_vars
    /\ WF_vars(Attempt(1) \/ CollidingRun(1))

\* One call site, while the current directory of the process changes or
\* becomes unavailable.
SpecCwd == Init /\ [][Site(1) \/ EnvSetCwd]_vars

\* =================================================================== claims

\* Call site t holds a handle that owns a path.
Owning(t) == handle[t].live /\ handle[t].path # None

\* The path call site t's handle owns.
OwnedPath(t) == unwrap(handle[t].path)

\* The last step of call site t ended its allocation inside the loop.
LoopEnded(t) == obs[t].op = "attempt" /\ pc[t] # "alloc"

\* What precedes the random suffix in the final component of p.
NamePrefix(p) == SubSeq(file_name(p), 1, Len(file_name(p)) - NUM_RAND_CHARS)

\* This step is call site t's allocation returning Ok.
ReturnsOk(t) == pc[t] = "alloc" /\ result'[t].tag = "Ok"

\* This step is operation op on the handle call site t holds.
HandleOp(t, op) ==
    pc[t] \in {"holding", "unwinding"} /\ obs[t].op # op /\ obs'[t].op = op

\* Nothing is left at p or below it after this step.
GoneAfter(p) == p \notin fs' /\ \A q \in fs' : ~Below(p, q)

\* C1 as stated: two allocations racing never end owning the same path; each
\* ends with its own directory, distinct from the other's and both existing,
\* or with an error that is not a collision (its kind is not PathAlreadyExists).
C1_EndsWithDirOrNonCollision ==
    /\ \A t1, t2 \in Threads :
         (t1 # t2 /\ Owning(t1) /\ Owning(t2)) =>
            /\ OwnedPath(t1) # OwnedPath(t2)
            /\ OwnedPath(t1) \in fs /\ OwnedPath(t2) \in fs
    /\ \A t \in Threads :
         LoopEnded(t) =>
            \/ result[t].tag = "Ok" /\ Owning(t) /\ OwnedPath(t) = result[t].path
            \/ result[t].tag = "Err" /\ result[t].err.kind # "PathAlreadyExists"

\* C1 (amended): two allocations racing never end owning the same path; each
\* ends with its own directory, distinct from the other's and both existing, or
\* with the error create_dir gave when it is not a collision, or, when the loop
\* used up its range on collisions, with the error Exhausted.
C1_RaceDistinct ==
    /\ \A t1, t2 \in Threads :
         (t1 # t2 /\ Owning(t1) /\ Owning(t2)) =>
            /\ OwnedPath(t1) # OwnedPath(t2)
            /\ OwnedPath(t1) \in fs /\ OwnedPath(t2) \in fs
    /\ \A t \in Threads :
         LoopEnded(t) =>
            \/ result[t].tag = "Ok" /\ Owning(t) /\ OwnedPath(t) = result[t].path
            \/ /\ result[t].tag = "Err"
               /\ result[t].err.kind # "PathAlreadyExists"
               /\ result[t].err = obs[t].create.err
            \/ /\ result[t].tag = "Err"
               /\ result[t].err = Exhausted
               /\ obs[t].create.err.kind = "PathAlreadyExists"

\* Both call sites hold a directory under the same root with the same prefix.
C1_Witness ==
    /\ Owning(1) /\ Owning(2)
    /\ parent(OwnedPath(1)) = parent(OwnedPath(2))
    /\ NamePrefix(OwnedPath(1)) = NamePrefix(OwnedPath(2))
    /\ OwnedPath(1) \in fs /\ OwnedPath(2) \in fs

\* C2: when an allocation returns Ok, the call site holds a handle that owns
\* the returned path, the directory exists at that path, and it did not exist
\* before the create attempt of this step.
C2_OkMeansCreated ==
    [][\A t \in Threads :
          ReturnsOk(t) =>
             /\ pc'[t] = "holding"
             /\ handle'[t] = TempDir(result'[t].path)
             /\ handle'[t].path # None
             /\ result'[t].path \in fs'
             /\ result'[t].path \notin fs]_vars

\* An allocation has just returned Ok and its directory exists.
C2_Witness ==
    \E t \in Threads :
        /\ LoopEnded(t) /\ result[t].tag = "Ok"
        /\ Owning(t) /\ OwnedPath(t) \in fs

\* C3: when an owning handle is dropped (no into_inner, no close) and the
\* recursive removal of its directory succeeds, nothing exists at its path
\* afterwards.
C3_DropRemoves ==
    [][\A t \in Threads :
          (HandleOp(t, "drop") /\ Owning(t)
              /\ remove_dir_all(fs, ro, OwnedPath(t)).ok) =>
             GoneAfter(OwnedPath(t))]_vars

\* A handle was dropped and the removal, called once, succeeded.
C3_Witness ==
    \E t \in Threads :
        /\ obs[t].op = "drop" /\ obs[t].rmCalls = 1 /\ obs[t].rm.ok
        /\ ~handle[t].live

\* C4: close() on an owning handle whose directory can be removed removes the
\* directory and all that is in it and returns Ok.
C4_CloseRemoves ==
    [][\A t \in Threads :
          (HandleOp(t, "close") /\ Owning(t)
              /\ remove_dir_all(fs, ro, OwnedPath(t)).ok) =>
             /\ result'[t] = OkUnit
             /\ GoneAfter(OwnedPath(t))]_vars

\* A handle was closed with Ok.
C4_Witness ==
    \E t \in Threads :
        /\ obs[t].op = "close" /\ obs[t].rmCalls = 1 /\ obs[t].rm.ok
        /\ result[t] = OkUnit /\ ~handle[t].live

\* C5: into_inner returns the owned path and changes nothing on the
\* filesystem; the drop of the consumed handle calls no removal, so a directory
\* that existed before the call exists after it, without a handle.
C5_IntoInnerKeeps ==
    [][\A t \in Threads :
          (HandleOp(t, "into_inner") /\ Owning(t)) =>
             /\ result'[t] = OkPath(OwnedPath(t))
             /\ fs' = fs
             /\ obs'[t].rmCalls = 0
             /\ ~handle'[t].live]_vars

\* A handle was detached and its directory exists without it.
C5_Witness ==
    \E t \in Threads :
        /\ obs[t].op = "into_inner" /\ result[t].tag = "Ok"
        /\ result[t].path \in fs /\ ~handle[t].live

\* This step is an iteration of call site t's loop.
AttemptStep(t) == pc[t] = "alloc" /\ (pc'[t] # "alloc" \/ tries'[t] # tries[t])

\* C6: when the attempts of an allocation all report "already exists", the
\* allocation ends only with the last value of 0..NUM_RETRIES, that is after
\* NUM_RETRIES attempts, and with the error Exhausted, which differs from the
\* error create_dir gave for the collision; an allocation that a filesystem
\* error ends never returns Exhausted.
C6_ExhaustedDistinguished ==
    [][\A t \in Threads :
          AttemptStep(t) =>
             IF obs'[t].create.err.kind = "PathAlreadyExists"
             THEN IF tries[t] = LastRetry
                  THEN /\ pc'[t] = "idle"
                       /\ result'[t] = Err(Exhausted)
                       /\ result'[t].err # obs'[t].create.err
                  ELSE pc'[t] = "alloc" /\ result'[t].tag = "None"
             ELSE result'[t].err # Exhausted]_vars

\* An allocation ended with Exhausted after a collision.
C6_Witness ==
    \E t \in Threads :
        /\ LoopEnded(t)
        /\ result[t] = Err(Exhausted)
        /\ obs[t].create.err = OsError("PathAlreadyExists")

\* C7: a create attempt that fails with anything but "already exists" ends the
\* allocation in that step with that same error, the filesystem unchanged; the
\* loop goes on to another attempt only after an "already exists" failure.
C7_OtherErrorsReturn ==
    [][\A t \in Threads :
          AttemptStep(t) =>
             /\ (~obs'[t].create.ok /\ obs'[t].create.err.kind # "PathAlreadyExists") =>
                   /\ pc'[t] = "idle"
                   /\ result'[t] = Err(obs'[t].create.err)
                   /\ fs' = fs
             /\ pc'[t] = "alloc" =>
                   /\ obs'[t].create.err.kind = "PathAlreadyExists"
                   /\ tries'[t] > tries[t]]_vars

\* An allocation ended with the permission error of its first attempt.
C7_Witness ==
    \E t \in Threads :
        /\ LoopEnded(t)
        /\ result[t] = Err(OsError("PermissionDenied"))
        /\ obs[t].create.err = OsError("PermissionDenied")

\* C8: close() returns Err exactly when the recursive removal of the owned
\* directory fails, with the error of that removal; path, into_inner and drop
\* never return an error.
C8_CloseReportsRemoval ==
    [][\A t \in Threads :
          /\ (HandleOp(t, "close") /\ Owning(t)) =>
                LET r == remove_dir_all(fs, ro, OwnedPath(t))
                IN /\ (result'[t].tag = "Err") <=> ~r.ok
                   /\ ~r.ok => result'[t] = Err(r.err)
                   /\ r.ok => result'[t] = OkUnit
          /\ \A op \in {"path", "into_inner", "drop"} :
                HandleOp(t, op) => result'[t].tag \notin {"Err", "Panic"}]_vars

\* close returned the error of a removal that found the directory gone.
C8_Witness ==
    \E t \in Threads :
        /\ obs[t].op = "close" /\ ~obs[t].rm.ok
        /\ result[t] = Err(OsError("FileNotFound"))

\* C9: drop of a handle completes normally whatever the removal answers: it
\* returns nothing, raises nothing, and the handle is gone.
C9_DropNeverRaises ==
    [][\A t \in Threads :
          HandleOp(t, "drop") =>
             /\ result'[t] = OkUnit
             /\ pc'[t] = "idle"
             /\ ~handle'[t].live]_vars

\* A handle was dropped, the removal failed for lack of permission, and drop
\* completed normally.
C9_Witness ==
    \E t \in Threads :
        /\ obs[t].op = "drop" /\ obs[t].rmCalls = 1
        /\ obs[t].rm = [ok |-> FALSE, err |-> OsError("PermissionDenied")]
        /\ result[t] = OkUnit

\* C10: for every non-empty prefix, the final component of the path of an
\* allocated directory is prefix "." suffix with a suffix of NUM_RAND_CHARS
\* ASCII letters and digits, the path contains the prefix, and the directory
\* is a direct child of the absolute root.
C10_LeafIsPrefixDotSuffix ==
    [][\A t \in Threads :
          (ReturnsOk(t) /\ prefix[t] # EmptyStr) =>
             LET p == result'[t].path
                 leaf == file_name(p)
                 n == Len(prefix[t])
             IN /\ Len(leaf) = n + 1 + NUM_RAND_CHARS
                /\ SubSeq(leaf, 1, n) = prefix[t]
                /\ leaf[n + 1] = "."
                /\ \A i \in (n + 2)..Len(leaf) : leaf[i] \in AsciiAlnum
                /\ contains(p, prefix[t])
                /\ is_absolute(tmpdir[t])
                /\ parent(p) = tmpdir[t]]_vars

\* C11: path() on a handle whose path was taken (by into_inner, which close
\* calls) panics: it returns neither a path, nor a default, nor an error. On an
\* owning handle it returns the owned path and the call site still holds the
\* handle. Either way the handle and the filesystem are as they were.
C11_PathPanicsWhenConsumed ==
    [][\A t \in Threads :
          HandleOp(t, "path") =>
             /\ handle[t].path = None =>
                   /\ result'[t] = Panic
                   /\ pc'[t] = "unwinding"
             /\ Owning(t) =>
                   /\ result'[t] = OkPath(OwnedPath(t))
                   /\ pc'[t] = "holding"
             /\ handle' = handle
             /\ fs' = fs /\ ro' = ro]_vars

\* path() was called on a handle whose path was taken, and panicked.
C11_Witness ==
    \E t \in Threads :
        /\ obs[t].op = "path"
        /\ handle[t].live /\ handle[t].path = None
        /\ result[t] = Panic

\* Call site t waits for the closure of thread u, which holds the handle t
\* gave it.
Moved(t, u) ==
    scope[t].child = u /\ handle[u].live /\ handle[u].path = Some(scope[t].path)

\* C12: a handle moved into the closure of another thread: its directory
\* exists in every state in which that thread holds it; the drop of the handle
\* in that thread removes the directory; and when join returns after that drop,
\* the thread that sent the handle finds that its copy of the path does not exist.
C12_MovedHandleRemovedAtEnd ==
    [][\A t, u \in Threads :
          /\ Moved(t, u) => exists(fs, scope[t].path)
          /\ Moved(t, u)' => exists(fs', scope'[t].path)
          /\ (Moved(t, u) /\ HandleOp(u, "drop")) =>
                /\ GoneAfter(scope[t].path)
                /\ ~handle'[u].live
          /\ (pc[t] = "joining" /\ pc'[t] # "joining"
                 /\ scope[t].child = u /\ obs[u].op = "drop") =>
                /\ result'[t] = OkBool(FALSE)
                /\ ~exists(fs', scope[t].path)]_vars

\* A thread dropped the handle it was given, and the sender, after join, found
\* the path gone.
C12_Witness ==
    \E t, u \in Threads :
        /\ t # u
        /\ obs[t].op = "join" /\ result[t] = OkBool(FALSE)
        /\ obs[u].op = "drop" /\ obs[u].rmCalls = 1 /\ obs[u].rm.ok

\* This step is call site t calling TempDir::new.
NewStep(t) == pc[t] = "idle" /\ calls' = calls + 1 /\ obs'[t].op = "new"

\* The root the environment of this state gives on a Unix target: TMPDIR when
\* it is set to a value that is not empty, else the default of the target.
RootOfEnv ==
    IF envTMPDIR # None /\ unwrap(envTMPDIR) # EmptyStr
    THEN unwrap(envTMPDIR)
    ELSE IF target_os = "android" THEN AndroidDefault ELSE TmpDefault

\* C13: on a Unix target temp_dir() returns TMPDIR when it is set and not
\* empty, and the default of the target (/tmp, /data/local/tmp on Android) when
\* it is unset or empty alike; it always returns, and never the empty path.
\* TempDir::new allocates under what it returned.
C13_TmpdirOrDefault ==
    [][/\ temp_dir(target_os, envTMPDIR) = RootOfEnv
       /\ temp_dir(target_os, envTMPDIR) # EmptyStr
       /\ temp_dir(target_os, None) = temp_dir(target_os, Some(EmptyStr))
       /\ \A t \in Threads :
             NewStep(t) =>
                /\ pc'[t] = "alloc"
                /\ tmpdir'[t] = RootOfEnv
                /\ tmpdir'[t] # EmptyStr]_vars

\* The operations that take self by value, and the end of the handle's scope.
Consuming == {"into_inner", "close", "drop"}

\* C14: a handle that owns a path stops owning it only in into_inner, close or
\* drop, and is gone after each of them; a handle whose path was taken never
\* owns a path again. The operation that ends a handle calls remove_dir_all
\* once when it is close or drop on an owning handle, whatever that call
\* answers, and not at all when it is into_inner or when the path was taken
\* before: the drop of self inside into_inner and close adds no call. path()
\* calls none.
C14_RemovalAttemptedOnce ==
    [][\A t \in Threads :
          /\ (handle[t].live /\ handle'[t] # handle[t]) =>
                \E op \in Consuming : HandleOp(t, op)
          /\ (handle[t].live /\ handle[t].path = None) => handle'[t].path = None
          /\ \A op \in Consuming :
                HandleOp(t, op) =>
                   /\ ~handle'[t].live
                   /\ obs'[t].rmCalls =
                         IF Owning(t) /\ op \in {"close", "drop"} THEN 1 ELSE 0
          /\ HandleOp(t, "path") => (obs'[t].rmCalls = 0 /\ fs' = fs)]_vars

\* close's removal failed, and remove_dir_all was called once in all.
C14_Witness ==
    \E t \in Threads :
        /\ obs[t].op = "close" /\ result[t].tag = "Err"
        /\ ~obs[t].rm.ok /\ obs[t].rmCalls = 1
        /\ ~handle[t].live

\* C15: every call of new_in that reaches its loop leaves it, with Ok or with
\* Err; inside the loop the counter stays within 0..NUM_RETRIES - 1, and each
\* iteration either ends the call or moves the counter up, so that the call
\* makes at most NUM_RETRIES create attempts, collisions or not.
C15_AllocationTerminates ==
    /\ (pc[1] = "alloc") ~> (pc[1] # "alloc" /\ result[1].tag \in {"Ok", "Err"})
    /\ [](\A t \in Threads : pc[t] = "alloc" => (tries[t] >= 0 /\ tries[t] <= LastRetry))
    /\ [][\A t \in Threads :
             AttemptStep(t) => (pc'[t] # "alloc" \/ tries'[t] > tries[t])]_vars

\* A call is about to make the last of its NUM_RETRIES attempts, all those
\* before it having collided.
C15_Witness ==
    \E t \in Threads :
        /\ pc[t] = "alloc" /\ tries[t] = LastRetry
        /\ obs[t].op = "attempt" /\ obs[t].create.err.kind = "PathAlreadyExists"

\* C16: new_in with a relative root: when current_dir() answers, the loop is
\* entered with the root joined to the current directory of that moment, which
\* is absolute, and nothing was created on the way; when it fails, new_in
\* returns that error (converted by to_new_error) without a call of create_dir,
\* the filesystem as it was and no handle. Every iteration of the loop works
\* with an absolute root, and the directory it creates for a prefix without
\* separator is a child of that root.
C16_RelativeRootResolved ==
    [][\A t \in Threads :
          /\ \A root \in Roots, pfx \in Prefixes :
                (is_relative(root) /\ Enter(t, root, pfx, "new_in")) =>
                   /\ obs'[t].create = NoCall
                   /\ fs' = fs
                   /\ IF cwd.ok
                      THEN /\ pc'[t] = "alloc"
                           /\ tmpdir'[t] = join(cwd.path, root)
                           /\ is_absolute(tmpdir'[t])
                      ELSE /\ pc'[t] = "idle"
                           /\ result'[t] = Err(to_new_error(cwd.err))
                           /\ result'[t].err.desc = cwd.err.desc
                           /\ ~handle'[t].live
          /\ AttemptStep(t) =>
                /\ is_absolute(tmpdir[t])
                /\ (result'[t].tag = "Ok" /\ ~contains(prefix[t], Slash)) =>
                      parent(result'[t].path) = tmpdir[t]]_vars

\* new_in with a relative root returned the error of current_dir(), and
\* create_dir was not called.
C16_Witness ==
    \E t \in Threads :
        /\ obs[t].op = "new_in" /\ pc[t] = "idle"
        /\ ~cwd.ok
        /\ result[t] = Err(to_new_error(cwd.err))
        /\ obs[t].create = NoCall

\* C17: with the empty prefix the leaf of every iteration is the suffix alone:
\* NUM_RAND_CHARS ASCII letters and digits, no "." in it; the name of the
\* directory an allocation with the empty prefix returns is such a leaf and
\* does not begin with ".".
C17_EmptyPrefixNoDot ==
    [][/\ \A suffix \in RandSuffixes :
             /\ gen_leaf(EmptyStr, suffix) = suffix
             /\ Len(gen_leaf(EmptyStr, suffix)) = NUM_RAND_CHARS
             /\ gen_leaf(EmptyStr, suffix)[1] # "."
       /\ \A t \in Threads :
             (ReturnsOk(t) /\ prefix[t] = EmptyStr) =>
                LET leaf == file_name(result'[t].path)
                IN /\ Len(leaf) = NUM_RAND_CHARS
                   /\ \A i \in 1..Len(leaf) : leaf[i] \in AsciiAlnum
                   /\ leaf[1] # "."
                   /\ leaf \in RandSuffixes
                   /\ result'[t].path = join(tmpdir[t], leaf)]_vars

\* An allocation with the empty prefix returned a directory whose name is
\* NUM_RAND_CHARS characters long.
C17_Witness ==
    \E t \in Threads :
        /\ LoopEnded(t) /\ result[t].tag = "Ok"
        /\ Owning(t) /\ OwnedPath(t) \in fs
        /\ Len(file_name(OwnedPath(t))) = NUM_RAND_CHARS

\* C18: every call of TempDir::new enters new_in with what temp_dir() gives
\* for the environment of that moment; the loop keeps that root to its end,
\* and the directory it creates (for a prefix without separator) is a child of
\* it. So after a change of TMPDIR the next call allocates under the new root.
C18_RootReadAtEachCall ==
    [][\A t \in Threads :
          /\ NewStep(t) =>
                /\ pc'[t] = "alloc"
                /\ tmpdir'[t] = temp_dir(target_os, envTMPDIR)
          /\ AttemptStep(t) =>
                /\ pc'[t] = "alloc" => tmpdir'[t] = tmpdir[t]
                /\ (result'[t].tag = "Ok" /\ ~contains(prefix[t], Slash)) =>
                      parent(result'[t].path) = tmpdir[t]]_vars

\* The first call of new, made with TMPDIR unset, left its directory under
\* /tmp; TMPDIR was then set to /alt, and the second call of new returned a
\* directory under /alt.
C18_Witness ==
    \E t \in Threads :
        /\ target_os = "linux"
        /\ calls = 2 /\ envSteps = 1 /\ envTMPDIR = Some(AltDir)
        /\ \E p \in fs : parent(p) = TmpDefault
        /\ LoopEnded(t) /\ result[t].tag = "Ok"
        /\ Owning(t) /\ parent(OwnedPath(t)) = AltDir

\* This step is call site t entering new or new_in.
EntryStep(t) ==
    pc[t] = "idle" /\ calls' = calls + 1 /\ obs'[t].op \in {"new", "new_in"}

\* C19: the steps of an allocation change the filesystem in one way only: the
\* step that returns Ok adds the returned directory, which did not exist and
\* whose parent did. The entry (with or without the error of current_dir),
\* every colliding iteration, and the iteration that returns Err (a missing
\* root, no permission, the range used up) leave the existing directories and
\* their permissions as they were: no parent is created and nothing that a
\* candidate collided with is removed or changed.
C19_AtMostOneNewDirectory ==
    [][\A t \in Threads :
          /\ EntryStep(t) => (fs' = fs /\ ro' = ro)
          /\ AttemptStep(t) =>
                /\ ro' = ro
                /\ IF result'[t].tag = "Ok"
                   THEN /\ result'[t].path \notin fs
                        /\ parent(result'[t].path) \in fs
                        /\ fs' = fs \cup {result'[t].path}
                   ELSE fs' = fs]_vars

\* An allocation under a root that does not exist returned the error of
\* create_dir, and the root still does not exist.
C19_Witness ==
    \E t \in Threads :
        /\ LoopEnded(t)
        /\ result[t] = Err(OsError("FileNotFound"))
        /\ obs[t].create.err = OsError("FileNotFound")
        /\ MissingDir \notin fs
====
